---------------------------- MODULE Spec2Model ----------------------------
(***************************************************************************)
(* PageRank by sampling and by iteration (pagerank.py).                    *)
(*                                                                         *)
(* The three functions of the core, transition_model, sample_pagerank and  *)
(* iterate_pagerank, are modelled as state machines over a corpus, a       *)
(* mapping from page to the set of pages it links to.                      *)
(*                                                                         *)
(* Numbers.  Python computes the probabilities and ranks in binary         *)
(* floating point.  The model computes them as exact rationals             *)
(* <<numerator, denominator>> in lowest terms with a positive              *)
(* denominator, so every statement below is a statement about the real     *)
(* arithmetic the floats approximate; rounding error of the floats is      *)
(* outside the model.                                                      *)
(*                                                                         *)
(* Pages.  Page identifiers are the integers 1..N and list(corpus.keys())  *)
(* is <<1, ..., N>>.  For transition_model and iterate_pagerank every      *)
(* labelled link graph on 1..N is a corpus of Init, so every pair (graph,  *)
(* listing order) occurs up to renaming; for sample_pagerank see           *)
(* WalkCorpora.  The iteration order of a set of links                     *)
(* (list(corpus[page])) is left to the build: the model takes every order. *)
(***************************************************************************)
EXTENDS Integers, Sequences, FiniteSets

VARIABLES
    fn,              \* the function called: "transition", "sample", "iterate"
    corpus,          \* argument corpus: page -> set of linked pages
    pages,           \* list(corpus.keys()), the order the corpus lists its pages
    damping_factor,  \* argument damping_factor
    n,               \* argument n of sample_pagerank
    page,            \* argument page of transition_model; current page of the walk
    prob,            \* dict prob returned by transition_model
    val,             \* dict val of sample_pagerank / iterate_pagerank
    init,            \* name init of iterate_pagerank (line 120)
    prev,            \* history: the value of val when the current sweep began
    r,               \* loop counter of sample_pagerank (line 87)
    idx,             \* position of the sweep in the corpus (line 121)
    sweeps,          \* history: number of sweeps begun
    pc,              \* control point
    outcome          \* "running", "returned" or "error"

vars == <<fn, corpus, pages, damping_factor, n, page, prob, val, init, prev,
          r, idx, sweeps, pc, outcome>>

----------------------------------------------------------------------------
(* Bounds *)

MaxPages == 3

MaxSamples == 2

MaxSweeps == 2

MaxLinks == 2

----------------------------------------------------------------------------
(* Exact rational arithmetic *)

RECURSIVE GCD(_, _)
GCD(a, b) == IF b = 0 THEN a ELSE GCD(b, a % b)

Abs(a) == IF a < 0 THEN -a ELSE a

Rat(a, b) ==
    LET g == GCD(Abs(a), b) IN <<a \div g, b \div g>>

Zero == <<0, 1>>

One == <<1, 1>>

Add(x, y) ==
    LET g == GCD(x[2], y[2])
        l == (x[2] \div g) * y[2]
    IN  Rat(x[1] * (l \div x[2]) + y[1] * (l \div y[2]), l)

Sub(x, y) == Add(x, <<-y[1], y[2]>>)

Mul(x, y) ==
    LET g1 == GCD(Abs(x[1]), y[2])
        g2 == GCD(Abs(y[1]), x[2])
    IN  <<(x[1] \div g1) * (y[1] \div g2), (x[2] \div g2) * (y[2] \div g1)>>

\* 1/x for x > 0
Inv(x) == <<x[2], x[1]>>

RatAbs(x) == <<Abs(x[1]), x[2]>>

Floor(x) == x[1] \div x[2]

\* a/b < c/d, compared by continued fractions so that no product is formed
RECURSIVE LessFrac(_, _, _, _)
LessFrac(a, b, c, d) ==
    LET q1 == a \div b
        q2 == c \div d
        r1 == a % b
        r2 == c % d
    IN  IF q1 # q2 THEN q1 < q2
        ELSE IF r2 = 0 THEN FALSE
        ELSE IF r1 = 0 THEN TRUE
        ELSE LessFrac(d, r2, b, r1)

Less(x, y) == LessFrac(x[1], x[2], y[1], y[2])

Leq(x, y) == ~Less(y, x)

----------------------------------------------------------------------------
(* Dictionaries and lists *)

EmptyDict == [p \in {} |-> Zero]

NoPage == 0

Range(s) == {s[i] : i \in 1..Len(s)}

\* for k in keys: total += d[k]
RECURSIVE SumFrom(_, _, _)
SumFrom(d, keys, i) ==
    IF i > Len(keys) THEN Zero ELSE Add(d[keys[i]], SumFrom(d, keys, i + 1))

SumOver(d, keys) == SumFrom(d, keys, 1)

\* the elements of seq that are in keep, in order
RECURSIVE Filter(_, _, _)
Filter(seq, keep, i) ==
    IF i > Len(seq) THEN <<>>
    ELSE IF seq[i] \in keep THEN <<seq[i]>> \o Filter(seq, keep, i + 1)
    ELSE Filter(seq, keep, i + 1)

\* every order in which the elements of set S can be listed
Orders(S) ==
    {s \in [1..Cardinality(S) -> S] : \A i, j \in 1..Cardinality(S) : s[i] = s[j] => i = j}

----------------------------------------------------------------------------
(* Inputs *)

\* DAMPING = 0.85 (line 7), and a damping factor close to 1
DampingFactors == {<<17, 20>>, <<99, 100>>}

\* DAMPING = 0.85 (line 7), and 0.5
IterateDampingFactors == {<<17, 20>>, <<1, 2>>}

\* what crawl returns: no page links to itself, every link is a page of the corpus
Corpora(N) ==
    {c \in [1..N -> SUBSET (1..N)] : \A p \in 1..N : p \notin c[p]}

Keys(c) == [i \in 1..Cardinality(DOMAIN c) |-> i]

----------------------------------------------------------------------------
(* transition_model *)

\* A dict that is scanned in insertion order (prob) is the sequence of its
\* <<key, value>> items.

ItemKeys(items) == {items[i][1] : i \in 1..Len(items)}

ItemAt(items, k) == CHOOSE i \in 1..Len(items) : items[i][1] = k

ItemValue(items, k) == items[ItemAt(items, k)][2]

RECURSIVE ItemSumFrom(_, _)
ItemSumFrom(items, i) ==
    IF i > Len(items) THEN Zero ELSE Add(items[i][2], ItemSumFrom(items, i + 1))

\* a faulty AddUniform: the mass is assigned where line 70 adds it
PutUniform(items, k, x) ==
    IF k \in ItemKeys(items)
    THEN [items EXCEPT ![ItemAt(items, k)] = <<k, x>>]
    ELSE Append(items, <<k, x>>)

\* lines 69-72: prob[link] += x, and prob[link] = x on KeyError
AddUniform(items, k, x) ==
    IF k \in ItemKeys(items)
    THEN [items EXCEPT ![ItemAt(items, k)] = <<k, Add(@[2], x)>>]
    ELSE Append(items, <<k, x>>)

\* lines 64-65
RECURSIVE LinkLoop(_, _, _)
LinkLoop(plinks, d, i) ==
    IF i > Len(plinks) THEN <<>>
    ELSE <<<<plinks[i], Mul(Inv(<<Len(plinks), 1>>), d)>>>> \o LinkLoop(plinks, d, i + 1)

\* lines 68-72
RECURSIVE PageLoop(_, _, _, _)
PageLoop(items, keys, d, i) ==
    IF i > Len(keys) THEN items
    ELSE PageLoop(AddUniform(items, keys[i], Mul(Sub(One, d), Inv(<<Len(keys), 1>>))),
                  keys, d, i + 1)

\* lines 61-73; keys is list(corpus.keys()), plinks is list(corpus[page])
transition_model(keys, plinks, d) ==
    PageLoop(LinkLoop(plinks, d, 1), keys, d, 1)

InitTransition ==
    /\ fn = "transition"
    /\ \E N \in 1..MaxPages : corpus \in Corpora(N)
    /\ pages = Keys(corpus)
    /\ damping_factor \in DampingFactors
    /\ page \in DOMAIN corpus
    /\ n = 0
    /\ prob = <<>>
    /\ val = EmptyDict
    /\ init = EmptyDict
    /\ prev = EmptyDict
    /\ r = 0
    /\ idx = 0
    /\ sweeps = 0
    /\ pc = "call"
    /\ outcome = "running"

TransitionModel ==
    /\ fn = "transition"
    /\ pc = "call"
    /\ \E plinks \in Orders(corpus[page]) :
          prob' = transition_model(pages, plinks, damping_factor)
    /\ pc' = "done"
    /\ outcome' = "returned"
    /\ UNCHANGED <<fn, corpus, pages, damping_factor, n, page, val, init, prev,
                   r, idx, sweeps>>

NextTransition == TransitionModel

SpecTransition == InitTransition /\ [][NextTransition]_vars

----------------------------------------------------------------------------
(* sample_pagerank *)

Hundred == <<100, 1>>

\* lines 89-92
DrawTotal(items) == Floor(Mul(ItemSumFrom(items, 1), Hundred))

\* lines 94-98: the first page of prob at which rand, less the masses scanned
\* so far, is <= 0; the current page when the scan ends without one
RECURSIVE Scan(_, _, _, _)
Scan(items, i, rand, current) ==
    IF i > Len(items) THEN current
    ELSE LET left == Sub(rand, Mul(items[i][2], Hundred))
         IN  IF Leq(left, Zero) THEN items[i][1]
             ELSE Scan(items, i + 1, left, current)

\* lines 93-98: the pages the scan ends at, over the values random.randint(0, total)
\* can return
Draws(items, current) ==
    {Scan(items, 1, <<rand, 1>>, current) : rand \in 0..DrawTotal(items)}

\* a faulty Tally: a page seen before keeps its tally
TallyOnce(v, pg, k) ==
    IF pg \in DOMAIN v THEN v
    ELSE [q \in DOMAIN v \cup {pg} |-> IF q = pg THEN Inv(<<k, 1>>) ELSE v[q]]

\* lines 99-102
Tally(v, pg, k) ==
    IF pg \in DOMAIN v THEN [v EXCEPT ![pg] = Add(@, Inv(<<k, 1>>))]
    ELSE [q \in DOMAIN v \cup {pg} |-> IF q = pg THEN Inv(<<k, 1>>) ELSE v[q]]

LinkCount(c) == Cardinality({pq \in (DOMAIN c) \X (DOMAIN c) : pq[2] \in c[pq[1]]})

\* An iteration of the walk reads the corpus only through its keys and the
\* links of the current page, so the walk is taken over the corpora of at
\* most MaxLinks links: every link set of a current page occurs among them.
WalkCorpora(N) == {c \in Corpora(N) : LinkCount(c) <= MaxLinks}

InitSample ==
    /\ fn = "sample"
    /\ \E N \in 0..MaxPages : corpus \in WalkCorpora(N)
    /\ pages = Keys(corpus)
    /\ damping_factor \in DampingFactors
    /\ n \in -1..MaxSamples
    /\ page = NoPage
    /\ prob = <<>>
    /\ val = EmptyDict
    /\ init = EmptyDict
    /\ prev = EmptyDict
    /\ r = 0
    /\ idx = 0
    /\ sweeps = 0
    /\ pc = "call"
    /\ outcome = "running"

\* lines 84-86; random.randint(0, -1) raises ValueError
SampleStart ==
    /\ fn = "sample"
    /\ pc = "call"
    /\ IF Len(pages) = 0
       THEN /\ pc' = "done"
            /\ outcome' = "error"
            /\ page' = page
       ELSE /\ \E i \in 1..Len(pages) : page' = pages[i]
            /\ pc' = "loop"
            /\ outcome' = outcome
    /\ val' = EmptyDict
    /\ r' = 0
    /\ UNCHANGED <<fn, corpus, pages, damping_factor, n, prob, init, prev, idx, sweeps>>

\* lines 87-102, one iteration
SampleStep ==
    /\ fn = "sample"
    /\ pc = "loop"
    /\ r < n
    /\ \E plinks \in Orders(corpus[page]) :
          LET items == transition_model(pages, plinks, damping_factor)
          IN  /\ prob' = items
              /\ page' \in Draws(items, page)
              /\ val' = Tally(val, page', n)
    /\ r' = r + 1
    /\ UNCHANGED <<fn, corpus, pages, damping_factor, n, init, prev, idx, sweeps,
                   pc, outcome>>

\* line 103
SampleReturn ==
    /\ fn = "sample"
    /\ pc = "loop"
    /\ r >= n
    /\ pc' = "done"
    /\ outcome' = "returned"
    /\ UNCHANGED <<fn, corpus, pages, damping_factor, n, page, prob, val, init, prev,
                   r, idx, sweeps>>

NextSample == SampleStart \/ SampleStep \/ SampleReturn

SpecSample == InitSample /\ [][NextSample]_vars

----------------------------------------------------------------------------
(* iterate_pagerank *)

\* the test of line 136
Threshold == <<1, 1000>>

\* the test of line 142
RescaleBelow == <<999, 1000>>

\* what SharedWrite would be if line 120 copied val: init keeps what it read
SnapshotWrite(old, new) == old

\* line 120 binds init to the dict val itself, it does not copy it: what the
\* name init reads after val has been written (old: what it read before)
SharedWrite(old, new) == new

\* lines 123-129: the pages that link to cpage, in the order of the corpus
LinksTo(c, keys, cpage) == Filter(keys, {p \in Range(keys) : cpage \in c[p]}, 1)

\* lines 130-131
RECURSIVE Incoming(_, _, _, _)
Incoming(v, c, links, i) ==
    IF i > Len(links) THEN Zero
    ELSE Add(Mul(v[links[i]], Inv(<<Cardinality(c[links[i]]), 1>>)),
             Incoming(v, c, links, i + 1))

\* line 132
Final(v, c, keys, cpage, d) ==
    Add(Mul(Sub(One, d), Inv(<<Len(keys), 1>>)),
        Mul(d, Incoming(v, c, LinksTo(c, keys, cpage), 1)))

\* lines 134-137
End(v, ini) ==
    \E p \in DOMAIN ini : Less(RatAbs(Sub(v[p], ini[p])), Threshold)

\* lines 139-144
Rescaled(v, keys) ==
    LET ftotal == SumOver(v, keys)
    IN  IF Less(ftotal, RescaleBelow)
        THEN [p \in DOMAIN v |-> Mul(v[p], Inv(ftotal))]
        ELSE v

InitIterate ==
    /\ fn = "iterate"
    /\ \E N \in 0..MaxPages : corpus \in Corpora(N)
    /\ pages = Keys(corpus)
    /\ damping_factor \in IterateDampingFactors
    /\ n = 0
    /\ page = NoPage
    /\ prob = <<>>
    /\ val = EmptyDict
    /\ init = EmptyDict
    /\ prev = EmptyDict
    /\ r = 0
    /\ idx = 0
    /\ sweeps = 0
    /\ pc = "call"
    /\ outcome = "running"

\* lines 115-118
IterateInit ==
    /\ fn = "iterate"
    /\ pc = "call"
    /\ val' = [p \in Range(pages) |-> Inv(<<Len(pages), 1>>)]
    /\ pc' = "while"
    /\ UNCHANGED <<fn, corpus, pages, damping_factor, n, page, prob, init, prev,
                   r, idx, sweeps, outcome>>

\* lines 119-120
BeginSweep ==
    /\ fn = "iterate"
    /\ pc = "while"
    /\ sweeps < MaxSweeps
    /\ init' = val
    /\ prev' = val
    /\ idx' = 1
    /\ sweeps' = sweeps + 1
    /\ pc' = "for"
    /\ UNCHANGED <<fn, corpus, pages, damping_factor, n, page, prob, val, r, outcome>>

\* lines 121-133, for one page cpage
UpdatePage ==
    /\ fn = "iterate"
    /\ pc = "for"
    /\ idx <= Len(pages)
    /\ val' = [val EXCEPT ![pages[idx]] =
                  Final(val, corpus, pages, pages[idx], damping_factor)]
    /\ init' = SharedWrite(init, val')
    /\ idx' = idx + 1
    /\ UNCHANGED <<fn, corpus, pages, damping_factor, n, page, prob, prev, r,
                   sweeps, pc, outcome>>

\* lines 134-145
EndSweep ==
    /\ fn = "iterate"
    /\ pc = "for"
    /\ idx > Len(pages)
    /\ IF End(val, init)
       THEN /\ val' = Rescaled(val, pages)
            /\ init' = SharedWrite(init, val')
            /\ pc' = "done"
            /\ outcome' = "returned"
       ELSE /\ pc' = "while"
            /\ UNCHANGED <<val, init, outcome>>
    /\ UNCHANGED <<fn, corpus, pages, damping_factor, n, page, prob, prev, r,
                   idx, sweeps>>

NextIterate == IterateInit \/ BeginSweep \/ UpdatePage \/ EndSweep

SpecIterate == InitIterate /\ [][NextIterate]_vars

----------------------------------------------------------------------------
(* The three functions together *)

Init == InitTransition \/ InitSample \/ InitIterate

Next == NextTransition \/ NextSample \/ NextIterate

Spec == Init /\ [][Next]_vars

----------------------------------------------------------------------------
(* Claims about transition_model, checked under SpecTransition *)

TransitionReturned == fn = "transition" /\ pc = "done"

\* C1: the distribution returned by transition_model sums to 1 for every corpus,
\* page and damping factor, a page with no outgoing links included.
C1_TransitionSumsToOne ==
    TransitionReturned => ItemSumFrom(prob, 1) = One

\* the mass d/L + (1 - d)/N, for d = a/b, formed as one fraction
LinkedMass(d, L, N) == Rat(d[1] * N + (d[2] - d[1]) * L, d[2] * L * N)

\* the mass (1 - d)/N, for d = a/b, formed as one fraction
UniformMass(d, N) == Rat(d[2] - d[1], d[2] * N)

C6_Masses ==
    (TransitionReturned /\ corpus[page] # {}) =>
        /\ ItemKeys(prob) = DOMAIN corpus
        /\ Len(prob) = Cardinality(DOMAIN corpus)
        /\ \A q \in DOMAIN corpus :
              ItemValue(prob, q) = IF q \in corpus[page]
                        THEN LinkedMass(damping_factor, Cardinality(corpus[page]),
                                        Cardinality(DOMAIN corpus))
                        ELSE UniformMass(damping_factor, Cardinality(DOMAIN corpus))

\* C6: for a page with L >= 1 outgoing links in a corpus of N pages, the keys of
\* the returned distribution are the N pages, every linked page has mass
\* d/L + (1 - d)/N, every other page (the current one included) has (1 - d)/N,
\* and the call leaves the corpus as it was.
C6_TransitionModel ==
    [] C6_Masses /\ [][fn = "transition" => corpus' = corpus]_vars

C6_Witness ==
    /\ TransitionReturned
    /\ Cardinality(DOMAIN corpus) = 3
    /\ Cardinality(corpus[page]) = 2
    /\ damping_factor = <<17, 20>>
    /\ ItemValue(prob, page) = <<1, 20>>

----------------------------------------------------------------------------
(* Claims about sample_pagerank, checked under SpecSample *)

\* the tally of page q, 0 for a page that has none
TallyOf(v, q) == IF q \in DOMAIN v THEN v[q] ELSE Zero

TallySum(v) == SumOver(v, Filter(pages, DOMAIN v, 1))

C3_Sums ==
    (fn = "sample" /\ n >= 1 /\ outcome # "error" /\ pc # "call") =>
        /\ TallySum(val) = Rat(r, n)
        /\ outcome = "returned" => TallySum(val) = One

C3_OneTally ==
    (fn = "sample" /\ pc = "loop" /\ r' = r + 1) =>
        \E p \in DOMAIN val' :
            /\ val'[p] = Add(TallyOf(val, p), Rat(1, n))
            /\ \A q \in DOMAIN val' \ {p} : q \in DOMAIN val /\ val'[q] = val[q]
            /\ DOMAIN val \subseteq DOMAIN val'

\* C3: each of the n >= 1 iterations of sample_pagerank adds exactly 1/n to the
\* tally of exactly one page and changes no other tally, so the tallies sum to
\* k/n after k iterations and the returned vector sums to 1.
C3_SampleTallies ==
    [] C3_Sums /\ [][C3_OneTally]_vars

\* the walk stayed on one page of a larger corpus: the draw selected the current
\* page again and the page was tallied a second time
C3_Witness ==
    /\ fn = "sample"
    /\ outcome = "returned"
    /\ n = 2
    /\ Len(pages) >= 2
    /\ \E p \in DOMAIN val : val[p] = One

\* C9: in each step of sample_pagerank every page to which the transition
\* distribution of the current page gives a positive probability can be selected
\* by the draw (stated for a current page that has links, whose distribution
\* sums to 1).
C9_AllPositiveSelectable ==
    (fn = "sample" /\ pc = "loop" /\ r < n /\ corpus[page] # {}) =>
        \A plinks \in Orders(corpus[page]) :
            LET items == transition_model(pages, plinks, damping_factor)
            IN  \A i \in 1..Len(items) :
                    Less(Zero, items[i][2]) => items[i][1] \in Draws(items, NoPage)

----------------------------------------------------------------------------
(* Claims about iterate_pagerank, checked under SpecIterate *)

IterateReturned == fn = "iterate" /\ outcome = "returned"

SweepDone == fn = "iterate" /\ pc = "for" /\ idx > Len(pages)

\* C2: the vector returned by iterate_pagerank sums to 1, whether the total
\* after the last sweep was above or below 1.
C2_IterateSumsToOne ==
    (IterateReturned /\ Len(pages) >= 1) => SumOver(val, pages) = One

\* C7: at the end of a sweep the rank of every page is the one computed from the
\* ranks held when the sweep began.
C7_SweepReadsPrevious ==
    SweepDone =>
        \A p \in DOMAIN corpus :
            val[p] = Final(prev, corpus, pages, p, damping_factor)

\* C8: the sweeping stops only after a sweep in which every rank differs by less
\* than the threshold from the rank the page had before that sweep.
C8_StopsOnlyWhenAllConverged ==
    (SweepDone /\ End(val, init)) =>
        \A p \in DOMAIN corpus : Less(RatAbs(Sub(val[p], prev[p])), Threshold)

----------------------------------------------------------------------------
(* Claims about both rankers, checked under Spec *)

\* C4: the vector a ranker returns has exactly the pages of the corpus as keys,
\* for sample_pagerank (n >= 1) as for iterate_pagerank.
C4_KeysAreThePages ==
    (outcome = "returned" /\ fn \in {"sample", "iterate"} /\ (fn = "sample" => n >= 1))
        => DOMAIN val = DOMAIN corpus

BadCall ==
    \/ fn = "sample" /\ n <= 0
    \/ fn \in {"sample", "iterate"} /\ Len(pages) = 0

\* C5: sample_pagerank with n <= 0, and either ranker with an empty corpus,
\* returns no rank vector and does not go round its loop again and again.
C5_BadCallEndsInError ==
    BadCall => (outcome # "returned" /\ sweeps <= 1)

=============================================================================
